---------------------------- MODULE Spec2Model ----------------------------
(***************************************************************************)
(* Model of src/main.py: the observer pattern around a simulated CPU       *)
(* temperature sensor.                                                     *)
(*                                                                         *)
(* The subject (CpuSensor) keeps its registry in the private attribute     *)
(* `_observers` of its instance dictionary; `change_measurements` stores   *)
(* the public attribute `temp` and runs one notification cycle.  The       *)
(* observers that the program registers are the classes CpuController and  *)
(* TempDisplay themselves (main.py:68-69), so an observer's attribute      *)
(* storage is the class dictionary and `update` is called as a plain       *)
(* function with the class passed explicitly (main.py:36).                 *)
(*                                                                         *)
(* Every method is an operator from a world record to a world record; a    *)
(* world holds the sensor's dictionary, the observers' dictionaries, the   *)
(* text printed, the `update` calls made and the exception that is         *)
(* propagating ("none" when the call returned).  Each action of Spec is    *)
(* one call of a public method by any caller; DriverSpec is the script at  *)
(* the end of the file (main.py:67-74), line by line.                      *)
(***************************************************************************)
EXTENDS Integers, Sequences, FiniteSets, TLC

VARIABLES
    sensor,     \* cpu_sensor.__dict__ : sequence of <<name, value>> pairs in insertion order
    attrs,      \* attrs[o] : the attributes set on observer o by setattr, as <<name, value>> pairs
    console,    \* the strings written by print during the most recent call, one per print call
    calls,      \* the observers whose update was entered during the most recent call, in call order
    raised,     \* the exception that left the most recent call, "none" when it returned
    op,         \* the most recent call : its method name and its arguments
    registered, \* history : registered[o] = register(o) calls minus successful remove(o) calls
    removed,    \* history : the observers removed successfully and not registered again since
    pc,         \* the module-level script (main.py:67-74) : the line it executes next
    loop_i      \* the module-level script : the iterations of its for loop begun so far (its i)

vars == <<sensor, attrs, console, calls, raised, op, registered, removed, pc, loop_i>>

-----------------------------------------------------------------------------
(* Bounds of the model. *)

\* The caller stops registering when the registry holds this many entries.
MaxObservers == 3

-----------------------------------------------------------------------------
(* Values. *)

\* The two observer classes of the program.
Observers == {"CpuController", "TempDisplay"}

\* A Python value a caller may pass as a reading: an int, or None.  A value
\* carries its type so that a comparison can fail as it does in Python.
IntVal(n) == [type |-> "int", val |-> n]
NoneVal == [type |-> "NoneType", val |-> 0]

\* The literal of CpuController.on_change's comparison.
Threshold == 90

\* The arguments of randint in the driver loop.
RandLow == 50
RandHigh == 110

\* The readings the caller draws from: the ends of the driver's range, the
\* threshold and its successor, the values of the documented scenarios, and
\* None.
Readings == {RandLow, 60, 73, Threshold, Threshold + 1, 95, RandHigh}
Values == {IntVal(n) : n \in Readings} \cup {NoneVal}

-----------------------------------------------------------------------------
(* Attribute dictionaries: sequences of <<name, value>> pairs. *)

Range(s) == {s[i] : i \in DOMAIN s}

Count(x, s) == Cardinality({i \in DOMAIN s : s[i] = x})

HasAttr(d, name) == \E i \in DOMAIN d : d[i][1] = name

GetAttr(d, name) == d[CHOOSE i \in DOMAIN d : d[i][1] = name][2]

\* setattr / attribute assignment: overwrite in place, or insert at the end.
SetAttr(d, name, val) ==
    IF HasAttr(d, name)
    THEN [i \in DOMAIN d |-> IF d[i][1] = name THEN <<name, val>> ELSE d[i]]
    ELSE Append(d, <<name, val>>)

\* str.startswith for a one-character prefix.
startswith(key, prefix) == Len(key) >= 1 /\ SubSeq(key, 1, 1) = prefix

\* The registry of a world.
Registry(w) == GetAttr(w.sensor, "_observers")

\* The world a call starts from: nothing printed, no update made, no exception.
Enter(w) == [w EXCEPT !.console = <<>>, !.calls = <<>>, !.raised = "none"]

\* print: one more string on the console.
print(w, text) == [w EXCEPT !.console = Append(@, text)]

raise(w, exc) == [w EXCEPT !.raised = exc]

\* str() of a value, as an f-string formats it.
str(v) == IF v.type = "int" THEN ToString(v.val) ELSE "None"

-----------------------------------------------------------------------------
(* Observer (main.py:5-15) and its two subclasses (main.py:53-65). *)

\* CpuController.on_change with the comparison `>=` instead of `>`.
CpuController_on_change_ge(w, o) ==
    LET w1 == print(w, "\n\n")
        w2 == print(w1, "CpuController: ")
    IN  IF ~HasAttr(w.attrs[o], "temp") THEN raise(w2, "AttributeError")
        ELSE IF GetAttr(w.attrs[o], "temp").type # "int" THEN raise(w2, "TypeError")
        ELSE IF GetAttr(w.attrs[o], "temp").val >= Threshold
             THEN print(w2, "Panic!\n")
             ELSE print(w2, "Everything under control\n")

\* CpuController.on_change: print('\n') writes a newline and print's own line
\* end; the label is written before self.temp is read, so a missing temp
\* (AttributeError) or a temp that does not compare with an int (TypeError)
\* leaves the label printed.
CpuController_on_change(w, o) ==
    LET w1 == print(w, "\n\n")
        w2 == print(w1, "CpuController: ")
    IN  IF ~HasAttr(w.attrs[o], "temp") THEN raise(w2, "AttributeError")
        ELSE IF GetAttr(w.attrs[o], "temp").type # "int" THEN raise(w2, "TypeError")
        ELSE IF GetAttr(w.attrs[o], "temp").val > Threshold
             THEN print(w2, "Panic!\n")
             ELSE print(w2, "Everything under control\n")

\* TempDisplay.on_change that leaves out the space before the unit.
TempDisplay_on_change_nospace(w, o) ==
    LET w1 == print(w, "Display: ")
    IN  IF ~HasAttr(w.attrs[o], "temp") THEN raise(w1, "AttributeError")
        ELSE print(w1, str(GetAttr(w.attrs[o], "temp")) \o "Deg\n")

\* TempDisplay.on_change that reads a missing temp as None, as
\* getattr(self, 'temp', None) does.
TempDisplay_on_change_default(w, o) ==
    LET w1 == print(w, "Display: ")
    IN  IF ~HasAttr(w.attrs[o], "temp") THEN print(w1, "None Deg\n")
        ELSE print(w1, str(GetAttr(w.attrs[o], "temp")) \o " Deg\n")

\* TempDisplay.on_change: the label, then the f-string of self.temp.
TempDisplay_on_change(w, o) ==
    LET w1 == print(w, "Display: ")
    IN  IF ~HasAttr(w.attrs[o], "temp") THEN raise(w1, "AttributeError")
        ELSE print(w1, str(GetAttr(w.attrs[o], "temp")) \o " Deg\n")

\* self.on_change(self): the class's own on_change.
on_change(w, o) ==
    IF o = "CpuController" THEN CpuController_on_change(w, o)
    ELSE TempDisplay_on_change(w, o)

\* The setattr loop that keeps the value of a name the observer already holds.
RECURSIVE setattrs_keep(_, _, _)
setattrs_keep(w, o, data) ==
    IF data = <<>> THEN w
    ELSE setattrs_keep(IF HasAttr(w.attrs[o], Head(data)[1]) THEN w
                       ELSE [w EXCEPT !.attrs[o] = Append(@, Head(data))],
                       o, Tail(data))

\* The setattr loop of update: every pair of data, in order, onto observer o.
RECURSIVE setattrs(_, _, _)
setattrs(w, o, data) ==
    IF data = <<>> THEN w
    ELSE setattrs([w EXCEPT !.attrs[o] = SetAttr(@, Head(data)[1], Head(data)[2])],
                  o, Tail(data))

\* Observer.update: the setattr loop, then on_change.
update(w, o, data) ==
    on_change(setattrs([w EXCEPT !.calls = Append(@, o)], o, data), o)

-----------------------------------------------------------------------------
(* Subject (main.py:18-36) and CpuSensor (main.py:39-47). *)

\* Subject.__init__ by way of CpuSensor.__init__: an empty registry.
CpuSensor_init == << <<"_observers", <<>> >> >>

\* register that skips an observer the registry already holds.
register_unique(w, observer) ==
    IF observer \in Range(Registry(w)) THEN w
    ELSE [w EXCEPT !.sensor = SetAttr(@, "_observers", Append(Registry(w), observer))]

\* register that hands the new observer the current snapshot at once.
register_replay(w, observer) ==
    LET w1 == [w EXCEPT !.sensor = SetAttr(@, "_observers", Append(Registry(w), observer))]
    IN  update(w1, observer, SelectSeq(w1.sensor, LAMBDA p : ~startswith(p[1], "_")))

\* Subject.register
register(w, observer) ==
    [w EXCEPT !.sensor = SetAttr(@, "_observers", Append(Registry(w), observer))]

\* list.remove: the first index holding x is dropped.
list_remove(s, x) ==
    LET i == CHOOSE k \in DOMAIN s : s[k] = x /\ \A j \in 1..(k - 1) : s[j] # x
    IN  SubSeq(s, 1, i - 1) \o SubSeq(s, i + 1, Len(s))

\* remove that drops the last occurrence of the observer instead of the first.
remove_last(w, observer) ==
    IF observer \notin Range(Registry(w)) THEN raise(w, "ValueError")
    ELSE LET s == Registry(w)
             i == CHOOSE k \in DOMAIN s : s[k] = observer /\ \A j \in (k + 1)..Len(s) : s[j] # observer
         IN  [w EXCEPT !.sensor = SetAttr(@, "_observers",
                                          SubSeq(s, 1, i - 1) \o SubSeq(s, i + 1, Len(s)))]

\* remove that drops every occurrence of the observer.
remove_all(w, observer) ==
    IF observer \notin Range(Registry(w)) THEN raise(w, "ValueError")
    ELSE [w EXCEPT !.sensor = SetAttr(@, "_observers",
                                      SelectSeq(Registry(w), LAMBDA x : x # observer))]

\* remove that ignores an absent observer, as set.discard does.
remove_discard(w, observer) ==
    IF observer \notin Range(Registry(w)) THEN w
    ELSE [w EXCEPT !.sensor = SetAttr(@, "_observers", list_remove(Registry(w), observer))]

\* Subject.remove: list.remove raises ValueError when the observer is absent.
remove(w, observer) ==
    IF observer \notin Range(Registry(w)) THEN raise(w, "ValueError")
    ELSE [w EXCEPT !.sensor = SetAttr(@, "_observers", list_remove(Registry(w), observer))]

\* _get_vars without the filter on the key: the whole __dict__.
_get_vars_all(d) == d

\* Subject._get_vars: the pairs of __dict__ whose key does not start with "_".
_get_vars(d) == SelectSeq(d, LAMBDA p : ~startswith(p[1], "_"))

\* The for loop of notify from registry index i on: the list iterator reads
\* the live list by index, and an exception leaving update ends the loop.
RECURSIVE notify_from(_, _)
notify_from(w, i) ==
    IF i > Len(Registry(w)) THEN w
    ELSE LET w1 == update(w, Registry(w)[i], _get_vars(w.sensor))
         IN  IF w1.raised # "none" THEN w1 ELSE notify_from(w1, i + 1)

\* notify whose loop starts at the second entry.
notify_skip_first(w) == notify_from(w, 2)

\* notify that takes each entry out of the registry as it visits it.
notify_consume(w) ==
    LET w1 == notify_from(w, 1)
    IN  [w1 EXCEPT !.sensor = SetAttr(@, "_observers",
                                      SubSeq(Registry(w1), Len(w1.calls) + 1, Len(Registry(w1))))]

\* notify that goes on to the next observer after one has failed.
RECURSIVE notify_each_from(_, _)
notify_each_from(w, i) ==
    IF i > Len(Registry(w)) THEN w
    ELSE notify_each_from(update(w, Registry(w)[i], _get_vars(w.sensor)), i + 1)

notify_isolating(w) == notify_each_from(w, 1)

\* notify that walks the registry from its last entry to its first.
RECURSIVE notify_down_from(_, _)
notify_down_from(w, i) ==
    IF i < 1 THEN w
    ELSE LET w1 == update(w, Registry(w)[i], _get_vars(w.sensor))
         IN  IF w1.raised # "none" THEN w1 ELSE notify_down_from(w1, i - 1)

notify_reversed(w) == notify_down_from(w, Len(Registry(w)))

\* Subject.notify
notify(w) == notify_from(w, 1)

\* change_measurements that notifies before it stores the reading.
change_measurements_late(w, temp) ==
    LET w1 == notify(w)
    IN  [w1 EXCEPT !.sensor = SetAttr(@, "temp", temp)]

\* change_measurements that notifies without storing the reading.
change_measurements_nostore(w, temp) == notify(w)

\* change_measurements that puts the sensor and the observers back as they
\* were when the cycle fails.
change_measurements_atomic(w, temp) ==
    LET w1 == notify([w EXCEPT !.sensor = SetAttr(@, "temp", temp)])
    IN  IF w1.raised = "none" THEN w1
        ELSE [w EXCEPT !.raised = w1.raised, !.console = w1.console, !.calls = w1.calls]

\* CpuSensor.change_measurements
change_measurements(w, temp) ==
    notify([w EXCEPT !.sensor = SetAttr(@, "temp", temp)])

-----------------------------------------------------------------------------
(* The specification: the caller's calls on cpu_sensor, one per step. *)

World == [sensor |-> sensor, attrs |-> attrs, console |-> console,
          calls |-> calls, raised |-> raised]

NoObserver == "-"

\* The variables after a call that ended in world w.
Outcome(w, name, observer, value) ==
    /\ sensor' = w.sensor
    /\ attrs' = w.attrs
    /\ console' = w.console
    /\ calls' = w.calls
    /\ raised' = w.raised
    /\ op' = [name |-> name, observer |-> observer, value |-> value]

Init ==
    /\ sensor = CpuSensor_init
    /\ attrs = [o \in Observers |-> <<>>]
    /\ console = <<>>
    /\ calls = <<>>
    /\ raised = "none"
    /\ op = [name |-> "__init__", observer |-> NoObserver, value |-> NoneVal]
    /\ registered = [o \in Observers |-> 0]
    /\ removed = {}
    /\ pc = "line68"
    /\ loop_i = 0

Register(o) ==
    /\ Len(Registry(World)) < MaxObservers
    /\ Outcome(register(Enter(World), o), "register", o, NoneVal)
    /\ registered' = [registered EXCEPT ![o] = @ + 1]
    /\ removed' = removed \ {o}

Remove(o) ==
    LET w == remove(Enter(World), o)
    IN  /\ Outcome(w, "remove", o, NoneVal)
        /\ registered' = IF w.raised = "none"
                         THEN [registered EXCEPT ![o] = @ - 1]
                         ELSE registered
        /\ removed' = IF w.raised = "none" THEN removed \cup {o} ELSE removed

Notify ==
    /\ Outcome(notify(Enter(World)), "notify", NoObserver, NoneVal)
    /\ UNCHANGED <<registered, removed>>

ChangeMeasurements(v) ==
    /\ Outcome(change_measurements(Enter(World), v), "change_measurements", NoObserver, v)
    /\ UNCHANGED <<registered, removed>>

\* Any caller's calls on cpu_sensor after its construction; the script's own
\* lines are not run.
Next ==
    \/ (\E o \in Observers : Register(o)) /\ UNCHANGED <<pc, loop_i>>
    \/ (\E o \in Observers : Remove(o)) /\ UNCHANGED <<pc, loop_i>>
    \/ Notify /\ UNCHANGED <<pc, loop_i>>
    \/ (\E v \in Values : ChangeMeasurements(v)) /\ UNCHANGED <<pc, loop_i>>

Spec == Init /\ [][Next]_vars

-----------------------------------------------------------------------------
(* The module-level script (main.py:67-74): the two registrations and the  *)
(* for loop.  Init is the state after line 67.                             *)

\* The stop of range() in the for loop.
Iterations == 10000

\* The integers randint is sampled at: the readings of the model and the
\* neighbours of the two arguments.
Samples == Readings \cup {RandLow - 1, RandHigh + 1}

\* randint(a, b): any integer n with a <= n <= b.
randint(a, b) == {n \in Samples : a <= n /\ n <= b}

\* A for loop that runs its body once more after range() is exhausted.
range_has_next_inclusive(k) == k <= Iterations

\* for i in range(10000): another iteration follows k completed ones.
range_has_next(k) == k < Iterations

\* cpu_sensor.register(CpuController)
DriverRegisterController ==
    /\ pc = "line68"
    /\ Register("CpuController")
    /\ pc' = "line69"
    /\ loop_i' = loop_i

\* cpu_sensor.register(TempDisplay)
DriverRegisterDisplay ==
    /\ pc = "line69"
    /\ Register("TempDisplay")
    /\ pc' = "line72"
    /\ loop_i' = loop_i

\* One iteration: sleep(2), which changes no state, then
\* change_measurements(randint(50, 110)); no handler surrounds the call, so an
\* exception leaving it ends the script.
DriverIterate ==
    /\ pc = "line72"
    /\ range_has_next(loop_i)
    /\ \E n \in randint(RandLow, RandHigh) : ChangeMeasurements(IntVal(n))
    /\ loop_i' = loop_i + 1
    /\ pc' = IF raised' = "none" THEN "line72" ELSE "crashed"

\* range() is exhausted: the script ends.
DriverExit ==
    /\ pc = "line72"
    /\ ~range_has_next(loop_i)
    /\ pc' = "done"
    /\ UNCHANGED <<sensor, attrs, console, calls, raised, op, registered, removed, loop_i>>

DriverNext ==
    \/ DriverRegisterController
    \/ DriverRegisterDisplay
    \/ DriverIterate
    \/ DriverExit

\* The script's position moves on: pc changes or another iteration begins.
\* Every step of DriverNext is such a step, and DriverNext has a step
\* wherever the script has a line to execute (the registry has room at lines
\* 68 and 69, randint's set is not empty, the calls are total).
DriverAdvance ==
    /\ pc \in {"line68", "line69", "line72"}
    /\ pc' \in {"line69", "line72", "done", "crashed"}
    /\ loop_i' \in {loop_i, loop_i + 1}
    /\ <<pc', loop_i'>> # <<pc, loop_i>>

\* The script runs on while it has a line to execute: the interpreter does
\* not stop and sleep(2) returns.  The fairness is stated on the script's
\* position alone, which is what a step of DriverNext advances.
DriverSpec == Init /\ [][DriverNext]_vars /\ WF_<<pc, loop_i>>(DriverAdvance)

-----------------------------------------------------------------------------
(* Properties. *)

\* The registry in the current state.
Reg == Registry(World)

\* The most recent call ran a notification cycle.
IsNotification == op.name \in {"notify", "change_measurements"}

\* C1: a notify() that completes, on any registry built by register and
\* remove, calls update once for each registry entry, in registration order:
\* the sequence of update calls is the registry as it was when notify began.
C1_NotifyEachEntryOnceInOrder ==
    [][(IsNotification' /\ raised' = "none") => calls' = Reg]_vars

\* A completed notify over a registry that holds both observers and that a
\* successful remove has shaped.
C1_Witness ==
    /\ op.name = "notify"
    /\ raised = "none"
    /\ Len(calls) >= 2
    /\ Range(calls) = Observers
    /\ removed # {}

\* C2: when change_measurements(v) returns, the sensor's temp is v and the
\* temp of every registered observer is v.
C2_AllObserversHoldReading ==
    (op.name = "change_measurements" /\ raised = "none") =>
        /\ HasAttr(sensor, "temp")
        /\ GetAttr(sensor, "temp") = op.value
        /\ \A o \in Range(Reg) :
              HasAttr(attrs[o], "temp") /\ GetAttr(attrs[o], "temp") = op.value

\* change_measurements(95) has returned with both observers registered.
C2_Witness ==
    /\ op.name = "change_measurements"
    /\ op.value = IntVal(95)
    /\ raised = "none"
    /\ Range(Reg) = Observers
    /\ \A o \in Observers : GetAttr(attrs[o], "temp") = IntVal(95)

\* C3 as stated: once remove(o) has succeeded, and until o is registered
\* again, no notification cycle calls update on o, whatever the registry held
\* before the remove.
C3_RemovedNeverNotified ==
    IsNotification => \A o \in removed : o \notin Range(calls)

\* C3 as amended: once remove(o) has succeeded, and until o is registered
\* again, no notification cycle calls update on o when the remove took away
\* o's only registration; when registrations of o remain, a cycle that
\* completes calls update on o once for each of them.
C3_RemovedNotifiedPerRemainingEntry ==
    IsNotification =>
        \A o \in removed :
            IF registered[o] = 0
            THEN o \notin Range(calls)
            ELSE raised = "none" => Count(o, calls) = registered[o]

\* A cycle that completed and updated someone, after the only registration
\* of another observer was removed.
C3_Witness ==
    /\ IsNotification
    /\ raised = "none"
    /\ calls # <<>>
    /\ \E o \in removed : registered[o] = 0 /\ o \notin Range(calls)

\* C4: remove(o) of an observer that is not in the registry raises ValueError
\* to the caller and leaves the registry, the sensor's temp and every
\* observer's attributes as they were.
C4_RemoveAbsentRaisesAndChangesNothing ==
    [][(op'.name = "remove" /\ op'.observer \notin Range(Reg)) =>
           /\ raised' = "ValueError"
           /\ sensor' = sensor
           /\ attrs' = attrs]_vars

\* A failed remove on a non-empty registry of a sensor that holds a reading.
C4_Witness ==
    /\ op.name = "remove"
    /\ raised = "ValueError"
    /\ op.observer \notin Range(Reg)
    /\ Reg # <<>>
    /\ HasAttr(sensor, "temp")

\* C5: register(o) appends o at the end of the registry whether or not o is
\* already there, so an observer registered k times (net of removes) holds k
\* registry positions and gets k update calls in each cycle that completes.
C5_RegisterAppendsDuplicatesNotified ==
    [][/\ op'.name = "register" => Reg' = Append(Reg, op'.observer)
       /\ \A o \in Observers : Count(o, Reg') = registered'[o]
       /\ (IsNotification' /\ raised' = "none") =>
              \A o \in Observers : Count(o, calls') = registered[o]]_vars

\* A completed cycle in which an observer registered twice was updated twice.
C5_Witness ==
    /\ IsNotification
    /\ raised = "none"
    /\ \E o \in Observers : registered[o] >= 2 /\ Count(o, calls) = registered[o]

\* C6: notify() and change_measurements() leave the registry as it was, its
\* contents and its order, whether the cycle completes or an observer's
\* failure aborts it; only register and remove change it.
C6_NotificationKeepsRegistry ==
    [][/\ IsNotification' => Reg' = Reg
       /\ Reg' # Reg => op'.name \in {"register", "remove"}]_vars

\* A cycle over two or more entries that an observer's failure aborted.
C6_Witness ==
    /\ op.name = "change_measurements"
    /\ raised # "none"
    /\ Len(Reg) >= 2
    /\ Range(Reg) = Observers

\* The label an observer's report starts with.
Label(o) == IF o = "CpuController" THEN "CpuController: " ELSE "Display: "

\* The labels on the console, in the order printed: one per report begun.
Labels(out) == SelectSeq(out, LAMBDA t : t \in {Label(o) : o \in Observers})

\* Observer o's update fails on the snapshot of sensor dictionary d when o
\* holds the attributes at: temp is missing from both, or o is the controller
\* and the temp it will hold is not an int.
Fails(o, d, at) ==
    IF HasAttr(d, "temp")
    THEN o = "CpuController" /\ GetAttr(d, "temp").type # "int"
    ELSE ~HasAttr(at[o], "temp")

\* C7: when the update/on_change of the observer at registry position i fails
\* in a notification cycle, the exception leaves notify() and
\* change_measurements(), update has been called on positions 1..i only, only
\* those positions have begun a report, and an observer that occupies none of
\* those positions keeps its attributes.
C7_FailureAbortsCycleAndPropagates ==
    [][IsNotification' =>
         \A i \in DOMAIN Reg :
            (/\ Fails(Reg[i], sensor', attrs)
             /\ \A j \in 1..(i - 1) : ~Fails(Reg[j], sensor', attrs)) =>
                /\ raised' # "none"
                /\ calls' = SubSeq(Reg, 1, i)
                /\ Labels(console') = [k \in 1..i |-> Label(Reg[k])]
                /\ \A o \in Observers \ Range(SubSeq(Reg, 1, i)) : attrs'[o] = attrs[o]]_vars

\* change_measurements(None) over <<TempDisplay, CpuController, TempDisplay>>:
\* the controller at position 2 fails and the display at position 3 is not
\* reached.
C7_Witness ==
    /\ op.name = "change_measurements"
    /\ raised = "TypeError"
    /\ Len(Reg) = 3
    /\ Reg[2] = "CpuController"
    /\ calls = SubSeq(Reg, 1, 2)
    /\ Labels(console) = <<"Display: ", "CpuController: ">>

\* The controller's verdicts on the console, in the order printed.
Verdicts(out) == SelectSeq(out, LAMBDA t : t \in {"Panic!\n", "Everything under control\n"})

\* C8: whenever CpuController.on_change runs holding an int temp, it reports
\* "Panic!" if temp > 90 and "Everything under control" otherwise, one report
\* per run; temp = 90 gives "Everything under control".
C8_PanicIffAboveThreshold ==
    (/\ IsNotification
     /\ "CpuController" \in Range(calls)
     /\ HasAttr(attrs["CpuController"], "temp")
     /\ GetAttr(attrs["CpuController"], "temp").type = "int") =>
        LET t == GetAttr(attrs["CpuController"], "temp").val
        IN  /\ Len(Verdicts(console)) = Count("CpuController", calls)
            /\ \A k \in DOMAIN Verdicts(console) :
                  Verdicts(console)[k] =
                      IF t > 90 THEN "Panic!\n" ELSE "Everything under control\n"
            /\ t = 90 => Range(Verdicts(console)) = {"Everything under control\n"}

\* The controller has reported on a temp of exactly 90.
C8_Witness ==
    /\ op.name = "change_measurements"
    /\ op.value = IntVal(90)
    /\ "CpuController" \in Range(calls)
    /\ Verdicts(console) # <<>>
    /\ Range(Verdicts(console)) = {"Everything under control\n"}

\* C9: with the registry <<CpuController, TempDisplay>> of the driver, a
\* change_measurements(v) of an int v prints the controller's report for v
\* and then the display's report for v, and nothing else; v = 95 prints
\* Panic! from the controller and then "95 Deg" from the display.
C9_DriverConfigurationOutput ==
    (/\ op.name = "change_measurements"
     /\ op.value.type = "int"
     /\ Reg = <<"CpuController", "TempDisplay">>) =>
        /\ raised = "none"
        /\ console = <<"\n\n", "CpuController: ",
                       IF op.value.val > 90 THEN "Panic!\n"
                                            ELSE "Everything under control\n",
                       "Display: ", ToString(op.value.val) \o " Deg\n">>
        /\ op.value.val = 95 =>
              console = <<"\n\n", "CpuController: ", "Panic!\n", "Display: ", "95 Deg\n">>

\* change_measurements(95) on the driver's registry.
C9_Witness ==
    /\ op.name = "change_measurements"
    /\ op.value = IntVal(95)
    /\ Reg = <<"CpuController", "TempDisplay">>
    /\ calls = <<"CpuController", "TempDisplay">>
    /\ Len(console) = 5

\* C10: with an empty registry, change_measurements(v) of any v prints
\* nothing, raises nothing, calls no update, and stores v as the sensor's
\* temp.
C10_EmptyRegistryOnlyStores ==
    [][(op'.name = "change_measurements" /\ Reg = <<>>) =>
           /\ console' = <<>>
           /\ raised' = "none"
           /\ calls' = <<>>
           /\ attrs' = attrs
           /\ sensor' = SetAttr(sensor, "temp", op'.value)
           /\ HasAttr(sensor', "temp")
           /\ GetAttr(sensor', "temp") = op'.value]_vars

\* change_measurements(60) has returned on an empty registry.
C10_Witness ==
    /\ op.name = "change_measurements"
    /\ op.value = IntVal(60)
    /\ Reg = <<>>
    /\ raised = "none"
    /\ console = <<>>
    /\ GetAttr(sensor, "temp") = IntVal(60)

\* The console positions at which the display printed its label and then
\* its reading.
DisplayAt(out) == {k \in 1..(Len(out) - 1) : out[k] = "Display: "}

\* The display's readings on the console.
DisplayReports(out) == {out[k + 1] : k \in DisplayAt(out)}

\* C11: whenever TempDisplay.on_change runs holding an int temp, it reports
\* the decimal numeral of exactly that value followed by " Deg", one report
\* per run; 73 gives "73 Deg".
C11_DisplayReportsValueAndUnit ==
    (/\ IsNotification
     /\ "TempDisplay" \in Range(calls)
     /\ HasAttr(attrs["TempDisplay"], "temp")
     /\ GetAttr(attrs["TempDisplay"], "temp").type = "int") =>
        LET t == GetAttr(attrs["TempDisplay"], "temp").val
        IN  /\ Cardinality(DisplayAt(console)) = Count("TempDisplay", calls)
            /\ DisplayReports(console) = {ToString(t) \o " Deg\n"}
            /\ t = 73 => DisplayReports(console) = {"73 Deg\n"}

\* The display has reported on a temp of 73.
C11_Witness ==
    /\ op.name = "change_measurements"
    /\ op.value = IntVal(73)
    /\ "TempDisplay" \in Range(calls)
    /\ "73 Deg\n" \in Range(console)

\* C12: update assigns every pair of the snapshot onto the observer,
\* overwriting what it held, before on_change runs, and runs on_change once:
\* in every notification cycle of a sensor that holds a temp, each update
\* begins exactly one report, each observer updated holds the temp of this
\* cycle, and each report printed is the one for this cycle's temp, whatever
\* earlier cycles delivered.
C12_ReportsReflectCurrentCycle ==
    (IsNotification /\ HasAttr(sensor, "temp")) =>
        LET v == GetAttr(sensor, "temp")
        IN  /\ op.name = "change_measurements" => v = op.value
            /\ Labels(console) = [k \in DOMAIN calls |-> Label(calls[k])]
            /\ \A o \in Range(calls) : attrs[o] = << <<"temp", v>> >>
            /\ DisplayReports(console) \subseteq
                  {(IF v.type = "int" THEN ToString(v.val) ELSE "None") \o " Deg\n"}
            /\ Range(Verdicts(console)) \subseteq
                  (IF v.type # "int" THEN {}
                   ELSE IF v.val > 90 THEN {"Panic!\n"}
                   ELSE {"Everything under control\n"})

\* The display reports on 73 in a cycle that follows one with another value:
\* the controller, not updated in this cycle, still holds the 95 that an
\* earlier cycle delivered.
C12_Witness ==
    /\ op.name = "change_measurements"
    /\ op.value = IntVal(73)
    /\ raised = "none"
    /\ Range(calls) = {"TempDisplay"}
    /\ DisplayReports(console) = {"73 Deg\n"}
    /\ HasAttr(attrs["CpuController"], "temp")
    /\ GetAttr(attrs["CpuController"], "temp") = IntVal(95)

\* C13: remove(o) of an observer that is in the registry returns, takes out
\* exactly one entry, the first that holds o, and keeps every other entry,
\* later entries of o among them, in its place relative to the others.
C13_RemoveDropsFirstOccurrenceOnly ==
    [][(op'.name = "remove" /\ op'.observer \in Range(Reg)) =>
           /\ raised' = "none"
           /\ Len(Reg') = Len(Reg) - 1
           /\ \E i \in DOMAIN Reg :
                 /\ Reg[i] = op'.observer
                 /\ \A j \in 1..(i - 1) : Reg[j] # op'.observer
                 /\ \A j \in 1..(i - 1) : Reg'[j] = Reg[j]
                 /\ \A j \in (i + 1)..Len(Reg) : Reg'[j - 1] = Reg[j]]_vars

\* remove(o) has returned and left <<other, o>>: a later entry of o was kept
\* behind the other observer.
C13_Witness ==
    /\ op.name = "remove"
    /\ raised = "none"
    /\ Len(Reg) = 2
    /\ Reg[1] # op.observer
    /\ Reg[2] = op.observer
    /\ registered[op.observer] = 1

\* A name that does not begin with an underscore.
IsPublic(name) == SubSeq(name, 1, 1) # "_"

\* C14: the snapshot notify() hands to the observers holds exactly the
\* sensor's public attributes, each with its current value, and no observer
\* ever holds a private attribute of the sensor: the registry `_observers`
\* is never copied onto an observer.
C14_SnapshotIsPublicAttributesOnly ==
    LET snap == _get_vars(sensor)
    IN  /\ \A i \in DOMAIN snap : IsPublic(snap[i][1])
        /\ \A j \in DOMAIN sensor :
              IsPublic(sensor[j][1]) => \E i \in DOMAIN snap : snap[i] = sensor[j]
        /\ Len(snap) = Cardinality({j \in DOMAIN sensor : IsPublic(sensor[j][1])})
        /\ \A o \in Observers : \A i \in DOMAIN attrs[o] :
              /\ IsPublic(attrs[o][i][1])
              /\ attrs[o][i][1] # "_observers"

\* A completed cycle over both observers: each holds the sensor's temp and
\* nothing else, while the sensor holds its registry and its temp.
C14_Witness ==
    /\ IsNotification
    /\ raised = "none"
    /\ Range(calls) = Observers
    /\ Len(sensor) = 2
    /\ _get_vars(sensor) = << <<"temp", GetAttr(sensor, "temp")>> >>
    /\ \A o \in Observers : attrs[o] = _get_vars(sensor)

\* C15: the driver loop terminates; no observer fails on its readings, it
\* makes exactly 10000 iterations, each a single change_measurements call
\* with an int reading in [50,110], and it ends only when all are made.
C15_DriverRunsAllIterationsAndEnds ==
    /\ <>(pc = "done")
    /\ [](pc \in {"line68", "line69"} => Len(Reg) < MaxObservers)
    /\ [](randint(50, 110) # {})
    /\ [](pc = "done" => loop_i = 10000)
    /\ [](pc # "crashed")
    /\ [][(pc = "line72" /\ pc' # "done") =>
              /\ loop_i' = loop_i + 1
              /\ pc' = "line72"
              /\ op'.name = "change_measurements"
              /\ op'.value.type = "int"
              /\ 50 <= op'.value.val /\ op'.value.val <= 110
              /\ raised' = "none"]_vars
    /\ [][(pc # "done" /\ pc' = "done") => loop_i = 10000]_vars

\* The script has ended after its 10000 iterations, the last of which
\* notified both observers.
C15_Witness ==
    /\ pc = "done"
    /\ loop_i = 10000
    /\ op.name = "change_measurements"
    /\ calls = <<"CpuController", "TempDisplay">>
    /\ raised = "none"

\* C16: a change_measurements(v) whose cycle a failing observer aborts rolls
\* nothing back: the sensor holds v, every observer the cycle reached (the
\* failing one included) holds v, and every observer it did not reach holds
\* what it held before, so the observers can differ from the sensor and from
\* each other.
C16_AbortedCycleRollsNothingBack ==
    [][(op'.name = "change_measurements" /\ raised' # "none") =>
           /\ HasAttr(sensor', "temp")
           /\ GetAttr(sensor', "temp") = op'.value
           /\ Reg' = Reg
           /\ \A o \in Range(calls') : attrs'[o] = << <<"temp", op'.value>> >>
           /\ \A o \in Observers \ Range(calls') : attrs'[o] = attrs[o]]_vars

\* change_measurements(None) over <<CpuController, TempDisplay>> after a 95:
\* the controller failed holding None, as the sensor does, and the display,
\* not reached, still holds 95.
C16_Witness ==
    /\ op.name = "change_measurements"
    /\ op.value = NoneVal
    /\ raised = "TypeError"
    /\ Reg = <<"CpuController", "TempDisplay">>
    /\ calls = <<"CpuController">>
    /\ GetAttr(sensor, "temp") = NoneVal
    /\ attrs["CpuController"] = << <<"temp", NoneVal>> >>
    /\ attrs["TempDisplay"] = << <<"temp", IntVal(95)>> >>

\* C17: while change_measurements has never been called the sensor has no
\* temp, no observer has one, and the snapshot is empty; a notify() then
\* assigns nothing and, when an observer is registered, fails in the first
\* observer's on_change with AttributeError.  A cycle that updates an
\* observer and completes therefore has a sensor that holds a temp.
C17_NotifyBeforeAnyReadingFails ==
    [][/\ (op'.name = "notify" /\ ~HasAttr(sensor, "temp")) =>
              /\ _get_vars(sensor) = <<>>
              /\ \A o \in Observers : attrs[o] = <<>>
              /\ sensor' = sensor
              /\ attrs' = attrs
              /\ IF Reg = <<>>
                 THEN raised' = "none" /\ calls' = <<>>
                 ELSE raised' = "AttributeError" /\ calls' = <<Reg[1]>>
       /\ (IsNotification' /\ raised' = "none" /\ calls' # <<>>) =>
              HasAttr(sensor', "temp")]_vars

\* notify() has failed in the first of two registered observers of a sensor
\* that has no temp.
C17_Witness ==
    /\ op.name = "notify"
    /\ raised = "AttributeError"
    /\ ~HasAttr(sensor, "temp")
    /\ Range(Reg) = Observers
    /\ calls = <<Reg[1]>>
    /\ \A o \in Observers : attrs[o] = <<>>

\* The sensor's public attributes: its temp, when it has one.
SensorTemp(d) == IF HasAttr(d, "temp") THEN <<GetAttr(d, "temp")>> ELSE <<>>

\* register and remove call no update, print nothing, and change neither an
\* observer's attributes nor the sensor's temp.
RegisterRemoveFrame ==
    op'.name \in {"register", "remove"} =>
        /\ calls' = <<>>
        /\ console' = <<>>
        /\ attrs' = attrs
        /\ SensorTemp(sensor') = SensorTemp(sensor)

\* C18 as stated: register and remove call no update and change neither an
\* observer's attributes nor the sensor's temp; an observer's attributes
\* change only in a change_measurements call, so one registered after a
\* change_measurements has not the current reading until the next
\* change_measurements; and an observer that was removed keeps what it holds.
C18_OnlyChangeMeasurementsDelivers ==
    [][/\ RegisterRemoveFrame
       /\ \A o \in Observers :
             attrs'[o] # attrs[o] => op'.name = "change_measurements"
       /\ \A o \in removed : attrs'[o] = attrs[o]]_vars

\* C18 as amended: register and remove call no update and change neither an
\* observer's attributes nor the sensor's temp; an observer's attributes
\* change only in a notification cycle that calls its update, be it a
\* change_measurements or a direct notify(), so one registered after a
\* change_measurements has not the current reading until the next cycle; and
\* an observer whose last registration was removed keeps what it holds.
C18_OnlyNotificationCyclesDeliver ==
    [][/\ RegisterRemoveFrame
       /\ \A o \in Observers :
             attrs'[o] # attrs[o] => (IsNotification' /\ o \in Range(calls'))
       /\ \A o \in removed : registered[o] = 0 => attrs'[o] = attrs[o]]_vars

\* An observer has just been registered on a sensor that holds a reading,
\* which the other observer has received and the new one has not.
C18_Witness ==
    /\ op.name = "register"
    /\ HasAttr(sensor, "temp")
    /\ op.observer \in Range(Reg)
    /\ attrs[op.observer] = <<>>
    /\ \E o \in Observers \ {op.observer} : attrs[o] = << <<"temp", GetAttr(sensor, "temp")>> >>

=============================================================================
